---------------------------- MODULE Spec2Model ----------------------------
(***************************************************************************)
(* Life in Weeks visualizer (src/script.js): the week calculation, the     *)
(* grid layout, the summary cards, the feedback message and the form's     *)
(* submit handler.                                                         *)
(*                                                                         *)
(* Time.  Date values are counted in ticks of 6 minutes (360000 ms), the   *)
(* largest unit in which a week (1000*60*60*24*7 ms), a tenth of a year    *)
(* (0.1 * 1000*60*60*24*365.25 ms) and a year are whole numbers, so every  *)
(* comparison the code makes on millisecond values is made here on whole   *)
(* ticks.  The timestamps the model draws are multiples of one tick.       *)
(* yearsLived, a floating-point quotient in the code, is the exact         *)
(* fraction msDiff / YearTicks, kept as numerator and denominator.         *)
(***************************************************************************)
EXTENDS Integers, Sequences, FiniteSets, TLC

VARIABLES
    pc,             \* position of the submit callback: Idle, Validating, Error, Computed
    clock,          \* the wall clock read by new Date(), in ticks
    rawValue,       \* dobInput.value as read by the running handler
    els,            \* which optional elements the page holds (ageEl, livedEl, remainingEl, dobErrorEl)
    grid,           \* children of gridEl: a sequence of rows
    gridFresh,      \* gridEl carries the class is-fresh
    ageText,        \* ageEl.textContent
    livedText,      \* livedEl.textContent
    remainingText,  \* remainingEl.textContent
    dobErrorText,   \* dobErrorEl.textContent
    dobErrorClass,  \* dobErrorEl carries the class form-feedback--error
    console,        \* the latest console.warn message ("" when there is none)
    outcome,        \* the branch the running handler took ("None" before it ran)
    calc,           \* the running handler's call of calculateWeeks: arguments and result
    renderArgs      \* the arguments of the latest call of renderWeeksGrid

vars == <<pc, clock, rawValue, els, grid, gridFresh, ageText, livedText,
          remainingText, dobErrorText, dobErrorClass, console, outcome, calc,
          renderArgs>>

\* what the user sees of a result: the grid and the three summary values
display == <<grid, ageText, livedText, remainingText>>
\* the feedback message
feedback == <<dobErrorText, dobErrorClass>>

-----------------------------------------------------------------------------
(* Program constants *)

AVERAGE_LIFESPAN_YEARS == 90
WEEKS_PER_YEAR == 52
MAX_REASONABLE_AGE_YEARS == 110

\* 1000 * 60 * 60 * 24 * 7 ms, in ticks (10 ticks an hour)
WeekTicks == 10 * 24 * 7
\* 1000 * 60 * 60 * 24 * 365.25 ms, in ticks
YearTicks == (10 * 24 * 1461) \div 4

MsgEmpty == "Please enter your date of birth."
MsgInvalid == "That doesn't look like a valid date. Please try again."
MsgNewborn == "Welcome to the world. This chart shows your journey ahead."
MsgImplausible == "That date is very far in the past. Please check your year."
MsgExceeded == "You've passed the 90-year mark in this model. Remaining weeks are shown as zero."
MsgFuture == "Date of birth cannot be in the future."

-----------------------------------------------------------------------------
(* Bounds of the model *)

\* the wall clock runs from 0 to MaxClock ticks
MaxClock == 1
\* arguments of a direct renderWeeksGrid call lie within Slack of a boundary
Slack == 1

Max(a, b) == IF a > b THEN a ELSE b
Min(a, b) == IF a < b THEN a ELSE b

-----------------------------------------------------------------------------
(* renderWeeksGrid *)

\* the old rows left in place
KeepGrid(content) == content

\* gridEl.innerHTML = ""
ClearGrid(content) == <<>>

\* a cell at the lived boundary counted as lived
CellTagInclusive(globalIndex, safeLived) ==
    IF globalIndex <= safeLived THEN "past" ELSE "future"

\* the tag of the cell at globalIndex
CellTag(globalIndex, safeLived) ==
    IF globalIndex < safeLived THEN "past" ELSE "future"

\* the inner break taken one cell late
InnerBreakLate(globalIndex, safeTotal) == globalIndex > safeTotal

\* if (globalIndex >= safeTotal) break;  in the inner loop
InnerBreak(globalIndex, safeTotal) == globalIndex >= safeTotal

\* the outer break missed when the cells run out at the end of a row
OuterBreakLate(globalIndex, safeTotal) == globalIndex > safeTotal

\* if (globalIndex >= safeTotal) { break; }  after the row is appended
OuterBreak(globalIndex, safeTotal) == globalIndex >= safeTotal

\* The loops are functions of the loop state, so that each pass works on the
\* value the pass before it left.  A row under construction is its cells, the
\* running globalIndex and whether the loop has broken; the grid under
\* construction is the rows appended so far, globalIndex and the same flag.
Tags == {"past", "future"}
Rows == [decade : BOOLEAN, cells : Seq(Tags)]
RowStates == [cells : Seq(Tags), globalIndex : Int, done : BOOLEAN]
GridStates == [content : Seq(Rows), globalIndex : Int, done : BOOLEAN]

\* one pass of the inner loop body: break, or append the cell and count it
WeekBody[week \in Int, st \in RowStates, safeTotal \in Int, safeLived \in Int] ==
    IF InnerBreak(st.globalIndex, safeTotal)
    THEN [st EXCEPT !.done = TRUE]
    ELSE [cells |-> Append(st.cells, CellTag(st.globalIndex, safeLived)),
          globalIndex |-> st.globalIndex + 1,
          done |-> FALSE]

\* for (week = lo; week < hi; week += 1): the passes run in order and none runs
\* after a break; the range is halved to keep the evaluation shallow
WeekLoop[lo \in Int, hi \in Int, st \in RowStates, safeTotal \in Int, safeLived \in Int] ==
    IF hi <= lo \/ st.done THEN st
    ELSE IF hi = lo + 1 THEN WeekBody[lo, st, safeTotal, safeLived]
    ELSE WeekLoop[(lo + hi) \div 2, hi,
                  WeekLoop[lo, (lo + hi) \div 2, st, safeTotal, safeLived],
                  safeTotal, safeLived]

\* row.classList of the row of a year
RowIsDecade(year) == year > 0 /\ year % 10 = 0

\* gridEl.appendChild(row), then the outer break test; r is the state the inner
\* loop left
AppendRow[year \in Int, st \in GridStates, r \in RowStates, safeTotal \in Int] ==
    [content |-> Append(st.content, [decade |-> RowIsDecade(year), cells |-> r.cells]),
     globalIndex |-> r.globalIndex,
     done |-> OuterBreak(r.globalIndex, safeTotal)]

\* one pass of the outer loop body: a new row, filled by the inner loop
YearBody[year \in Int, st \in GridStates, safeTotal \in Int, safeLived \in Int] ==
    AppendRow[year, st,
              WeekLoop[0, WEEKS_PER_YEAR,
                       [cells |-> <<>>, globalIndex |-> st.globalIndex, done |-> FALSE],
                       safeTotal, safeLived],
              safeTotal]

\* for (year = lo; year < hi; year += 1)
YearLoop[lo \in Int, hi \in Int, st \in GridStates, safeTotal \in Int, safeLived \in Int] ==
    IF hi <= lo \/ st.done THEN st
    ELSE IF hi = lo + 1 THEN YearBody[lo, st, safeTotal, safeLived]
    ELSE YearLoop[(lo + hi) \div 2, hi,
                  YearLoop[lo, (lo + hi) \div 2, st, safeTotal, safeLived],
                  safeTotal, safeLived]

\* const safeTotal = Math.max(0, totalWeeks)
SafeTotal(totalWeeks) == Max(0, totalWeeks)
\* const safeLived = Math.min(Math.max(0, weeksLived), safeTotal)
SafeLived(totalWeeks, weeksLived) == Min(Max(0, weeksLived), SafeTotal(totalWeeks))

\* the children of gridEl after renderWeeksGrid(totalWeeks, weeksLived), content
\* being its children before
renderWeeksGrid(content, totalWeeks, weeksLived) ==
    YearLoop[0, AVERAGE_LIFESPAN_YEARS,
             [content |-> ClearGrid(content), globalIndex |-> 0, done |-> FALSE],
             SafeTotal(totalWeeks), SafeLived(totalWeeks, weeksLived)].content

-----------------------------------------------------------------------------
(* Texts.  A number shown as text is its sign and its groups of digits:     *)
(* "4,680" is <<4, 680>>, "30.0" is <<30, 0>>.  The text of the page's own  *)
(* markup, before any render, has no groups.                               *)

Placeholder == [sign |-> "", groups |-> <<>>]

\* the digit groups of n >= 0, three digits a group
RECURSIVE DigitGroups(_)
DigitGroups(n) ==
    IF n < 1000 THEN <<n>> ELSE Append(DigitGroups(n \div 1000), n % 1000)

\* Number.prototype.toLocaleString() of an integer, with thousands grouping
toLocaleString(n) ==
    [sign |-> IF n < 0 THEN "-" ELSE "", groups |-> DigitGroups(IF n < 0 THEN -n ELSE n)]

\* the number a grouped text shows
RECURSIVE GroupsValue(_)
GroupsValue(groups) ==
    IF groups = <<>> THEN 0
    ELSE 1000 * GroupsValue(SubSeq(groups, 1, Len(groups) - 1)) + groups[Len(groups)]

ShownNumber(text) ==
    IF text.sign = "-" THEN -GroupsValue(text.groups) ELSE GroupsValue(text.groups)

\* yearsLived.toFixed(1) of y >= 0: the nearest tenth.  Where the fraction lies
\* exactly between two tenths the double nearest to it decides, so both are possible.
toFixed1(y) ==
    LET q == (10 * y.num) \div y.den
        r == (10 * y.num) % y.den
        tenths == IF 2 * r < y.den THEN {q}
                  ELSE IF 2 * r > y.den THEN {q + 1}
                  ELSE {q, q + 1}
    IN  {[sign |-> "", groups |-> <<t \div 10, t % 10>>] : t \in tenths}

-----------------------------------------------------------------------------
(* calculateWeeks *)

\* the future check left out
IsFutureNever(dob, now) == FALSE

\* dob > now
IsFuture(dob, now) == dob > now

\* the result of calculateWeeks(dob) when the clock reads now; error is the
\* message of the Error thrown, "" when none is
calculateWeeks(dob, now) ==
    IF IsFuture(dob, now)
    THEN [error |-> MsgFuture, totalWeeks |-> 0, weeksLived |-> 0,
          yearsLived |-> [num |-> 0, den |-> YearTicks]]
    ELSE LET msDiff == now - dob
         IN  [error |-> "",
              totalWeeks |-> AVERAGE_LIFESPAN_YEARS * WEEKS_PER_YEAR,
              weeksLived |-> msDiff \div WeekTicks,
              yearsLived |-> [num |-> msDiff, den |-> YearTicks]]

-----------------------------------------------------------------------------
(* The feedback message and the summary cards *)

\* the class removed, the text left
clearErrorClassOnly ==
    IF ~els.dobErrorEl THEN UNCHANGED <<dobErrorText, dobErrorClass>>
    ELSE dobErrorText' = dobErrorText /\ dobErrorClass' = FALSE

\* clearError()
clearError ==
    IF ~els.dobErrorEl THEN UNCHANGED <<dobErrorText, dobErrorClass>>
    ELSE dobErrorText' = "" /\ dobErrorClass' = FALSE

\* showError(message)
showError(message) ==
    IF ~els.dobErrorEl THEN UNCHANGED <<dobErrorText, dobErrorClass>>
    ELSE dobErrorText' = message /\ dobErrorClass' = TRUE

\* the difference without its floor at zero
RemainingUnfloored(totalWeeks, weeksLived) == totalWeeks - weeksLived

\* Math.max(0, totalWeeks - weeksLived)
Remaining(totalWeeks, weeksLived) == Max(0, totalWeeks - weeksLived)

\* the lived and remaining counts written to each other's card
updateSummarySwapped(r) ==
    /\ IF els.ageEl THEN ageText' \in toFixed1(r.yearsLived) ELSE UNCHANGED ageText
    /\ IF els.livedEl
       THEN livedText' = toLocaleString(Remaining(r.totalWeeks, r.weeksLived))
       ELSE UNCHANGED livedText
    /\ IF els.remainingEl THEN remainingText' = toLocaleString(r.weeksLived)
       ELSE UNCHANGED remainingText

\* updateSummary({ yearsLived, weeksLived, totalWeeks })
updateSummary(r) ==
    /\ IF els.ageEl THEN ageText' \in toFixed1(r.yearsLived) ELSE UNCHANGED ageText
    /\ IF els.livedEl THEN livedText' = toLocaleString(r.weeksLived)
       ELSE UNCHANGED livedText
    /\ IF els.remainingEl
       THEN remainingText' = toLocaleString(Remaining(r.totalWeeks, r.weeksLived))
       ELSE UNCHANGED remainingText

\* applyGridAnimation(): the class is removed, then added again
applyGridAnimation == gridFresh' = TRUE

-----------------------------------------------------------------------------
(* The submit handler *)

\* dobInput.value is a string: empty, one that does not parse as a date, or one
\* that parses to the time given
NoValue == [kind |-> "none", time |-> 0]
RawChoices ==
    {[kind |-> "empty", time |-> 0], [kind |-> "garbage", time |-> 0]}
    \cup {[kind |-> "date", time |-> t] :
            t \in {1, 0, 1 - YearTicks \div 10, -30 * YearTicks,
                   1 - AVERAGE_LIFESPAN_YEARS * WEEKS_PER_YEAR * WeekTicks,
                   -AVERAGE_LIFESPAN_YEARS * YearTicks,
                   -MAX_REASONABLE_AGE_YEARS * YearTicks,
                   -120 * YearTicks}}

\* !rawValue
IsEmpty(raw) == raw.kind = "empty"

\* new Date(rawValue); valid is ~Number.isNaN(dob.getTime())
NewDate(raw) ==
    IF raw.kind = "date" THEN [valid |-> TRUE, time |-> raw.time]
    ELSE [valid |-> FALSE, time |-> 0]

\* the if / else-if chain on yearsLived
AgeBranch(yearsLived) ==
    IF 10 * yearsLived.num < yearsLived.den THEN "Newborn"
    ELSE IF yearsLived.num > MAX_REASONABLE_AGE_YEARS * yearsLived.den THEN "ImplausibleAge"
    ELSE IF yearsLived.num > AVERAGE_LIFESPAN_YEARS * yearsLived.den THEN "Exceeded"
    ELSE "Clear"

\* what each branch of the chain does to the feedback message
AgeMessage(branch) ==
    CASE branch = "Newborn" -> showError(MsgNewborn)
      [] branch = "ImplausibleAge" -> showError(MsgImplausible)
      [] branch = "Exceeded" -> showError(MsgExceeded)
      [] OTHER -> clearError

\* the return left out
ReturnsNever(branch) == FALSE

\* the branch that ends in return
ReturnsEarly(branch) == branch = "ImplausibleAge"

\* the call made outside any try block
CaughtNothing(error) == FALSE

\* try { ... } catch (error) { ... } catches whatever the block throws
Caught(error) == TRUE

NotCalled == [called |-> FALSE]
Call(dob, now) ==
    [called |-> TRUE, dob |-> dob, now |-> now, result |-> calculateWeeks(dob, now)]

\* the form is submitted with raw in the input: the handler starts and reads the value
Submit(raw) ==
    /\ pc = "Idle"
    /\ pc' = "Validating"
    /\ rawValue' = raw
    /\ UNCHANGED <<clock, els, grid, gridFresh, ageText, livedText, remainingText,
                   dobErrorText, dobErrorClass, console, outcome, calc, renderArgs>>

\* if (!rawValue) { showError(...); return; }
RejectEmpty ==
    /\ pc = "Validating"
    /\ IsEmpty(rawValue)
    /\ showError(MsgEmpty)
    /\ outcome' = "EmptyInput"
    /\ pc' = "Error"
    /\ UNCHANGED <<clock, rawValue, els, grid, gridFresh, ageText, livedText,
                   remainingText, console, calc, renderArgs>>

\* if (Number.isNaN(dob.getTime())) { showError(...); return; }
RejectInvalid ==
    /\ pc = "Validating"
    /\ ~IsEmpty(rawValue)
    /\ ~NewDate(rawValue).valid
    /\ showError(MsgInvalid)
    /\ outcome' = "InvalidDate"
    /\ pc' = "Error"
    /\ UNCHANGED <<clock, rawValue, els, grid, gridFresh, ageText, livedText,
                   remainingText, console, calc, renderArgs>>

\* calculateWeeks throws: control passes to the catch clause, which warns
CatchFuture ==
    /\ pc = "Validating"
    /\ ~IsEmpty(rawValue)
    /\ NewDate(rawValue).valid
    /\ LET c == Call(NewDate(rawValue).time, clock)
       IN  /\ c.result.error # ""
           /\ calc' = c
           /\ IF Caught(c.result.error)
              THEN console' = c.result.error /\ pc' = "Error"
              ELSE console' = console /\ pc' = "Uncaught"
    /\ outcome' = "FutureDateOfBirth"
    /\ UNCHANGED <<clock, rawValue, els, grid, gridFresh, ageText, livedText,
                   remainingText, dobErrorText, dobErrorClass, renderArgs>>

\* calculateWeeks returns and the chain takes the branch that returns
RejectImplausible ==
    /\ pc = "Validating"
    /\ ~IsEmpty(rawValue)
    /\ NewDate(rawValue).valid
    /\ LET c == Call(NewDate(rawValue).time, clock)
           branch == AgeBranch(c.result.yearsLived)
       IN  /\ c.result.error = ""
           /\ ReturnsEarly(branch)
           /\ calc' = c
           /\ AgeMessage(branch)
           /\ outcome' = branch
    /\ pc' = "Error"
    /\ UNCHANGED <<clock, rawValue, els, grid, gridFresh, ageText, livedText,
                   remainingText, console, renderArgs>>

\* calculateWeeks returns and the chain falls through to the render calls
Render ==
    /\ pc = "Validating"
    /\ ~IsEmpty(rawValue)
    /\ NewDate(rawValue).valid
    /\ LET c == Call(NewDate(rawValue).time, clock)
           r == c.result
           branch == AgeBranch(r.yearsLived)
       IN  /\ r.error = ""
           /\ ~ReturnsEarly(branch)
           /\ calc' = c
           /\ AgeMessage(branch)
           /\ outcome' = branch
           /\ grid' = renderWeeksGrid(grid, r.totalWeeks, r.weeksLived)
           /\ renderArgs' = [called |-> TRUE, totalWeeks |-> r.totalWeeks,
                             weeksLived |-> r.weeksLived]
           /\ updateSummary(r)
           /\ applyGridAnimation
    /\ pc' = "Computed"
    /\ UNCHANGED <<clock, rawValue, els, console>>

\* the handler returns; its locals are gone and the form waits for the next submit
Return ==
    /\ pc \in {"Error", "Computed"}
    /\ pc' = "Idle"
    /\ rawValue' = NoValue
    /\ calc' = NotCalled
    /\ outcome' = "None"
    /\ UNCHANGED <<clock, els, grid, gridFresh, ageText, livedText, remainingText,
                   dobErrorText, dobErrorClass, console, renderArgs>>

\* time passes
Tick ==
    /\ clock < MaxClock
    /\ clock' = clock + 1
    /\ UNCHANGED <<pc, rawValue, els, grid, gridFresh, ageText, livedText,
                   remainingText, dobErrorText, dobErrorClass, console, outcome,
                   calc, renderArgs>>

\* the page as the script finds it: form, dobInput and gridEl are there (the
\* script returns at once otherwise); the other elements are looked up and each
\* is used only if found.  Two pages are drawn: one with them, one without.
ElsChoices ==
    {[ageEl |-> b, livedEl |-> b, remainingEl |-> b, dobErrorEl |-> b] : b \in BOOLEAN}

Init ==
    /\ pc = "Idle"
    /\ clock = 0
    /\ rawValue = NoValue
    /\ els \in ElsChoices
    /\ grid = <<>>
    /\ gridFresh = FALSE
    /\ ageText = Placeholder
    /\ livedText = Placeholder
    /\ remainingText = Placeholder
    /\ dobErrorText = ""
    /\ dobErrorClass = FALSE
    /\ console = ""
    /\ outcome = "None"
    /\ calc = NotCalled
    /\ renderArgs = [called |-> FALSE, totalWeeks |-> 0, weeksLived |-> 0]

Handle == RejectEmpty \/ RejectInvalid \/ CatchFuture \/ RejectImplausible \/ Render

Next ==
    \/ \E raw \in RawChoices : Submit(raw)
    \/ RejectEmpty
    \/ RejectInvalid
    \/ CatchFuture
    \/ RejectImplausible
    \/ Render
    \/ Return
    \/ Tick

Spec == Init /\ [][Next]_vars

\* a handler that has started runs to its end
FairSpec == Spec /\ WF_vars(Handle) /\ WF_vars(Return)

-----------------------------------------------------------------------------
(* renderWeeksGrid on its own: any pair of integer arguments, drawn around  *)
(* the boundaries of the layout, on a grid that is empty or holds the rows  *)
(* of an earlier render.                                                    *)

LayoutChoices ==
    {b + d : b \in {0, WEEKS_PER_YEAR, 10 * WEEKS_PER_YEAR,
                    AVERAGE_LIFESPAN_YEARS * WEEKS_PER_YEAR},
             d \in -Slack .. Slack}

\* the rows renderWeeksGrid(1, 1) leaves
LeftoverGrid == <<[decade |-> FALSE, cells |-> <<"past">>]>>

InitLayout ==
    /\ pc = "Idle"
    /\ clock = 0
    /\ rawValue = NoValue
    /\ els = [ageEl |-> TRUE, livedEl |-> TRUE, remainingEl |-> TRUE, dobErrorEl |-> TRUE]
    /\ grid \in {<<>>, LeftoverGrid}
    /\ gridFresh = FALSE
    /\ ageText = Placeholder
    /\ livedText = Placeholder
    /\ remainingText = Placeholder
    /\ dobErrorText = ""
    /\ dobErrorClass = FALSE
    /\ console = ""
    /\ outcome = "None"
    /\ calc = NotCalled
    /\ renderArgs \in [called : {FALSE}, totalWeeks : LayoutChoices,
                       weeksLived : LayoutChoices]

\* renderWeeksGrid(totalWeeks, weeksLived) is called with the arguments drawn
CallRender ==
    /\ ~renderArgs.called
    /\ grid' = renderWeeksGrid(grid, renderArgs.totalWeeks, renderArgs.weeksLived)
    /\ renderArgs' = [renderArgs EXCEPT !.called = TRUE]
    /\ UNCHANGED <<pc, clock, rawValue, els, gridFresh, ageText, livedText,
                   remainingText, dobErrorText, dobErrorClass, console, outcome, calc>>

NextLayout == CallRender

SpecLayout == InitLayout /\ [][NextLayout]_vars

-----------------------------------------------------------------------------
(* Measures of a grid *)

\* the number of cells of a row that carry the tag
TagCount(row, tag) == Cardinality({w \in 1 .. Len(row.cells) : row.cells[w] = tag})

\* the number of cells in the first n rows
RECURSIVE CellsBefore(_, _)
CellsBefore(g, n) == IF n = 0 THEN 0 ELSE CellsBefore(g, n - 1) + Len(g[n].cells)

CellCount(g) == CellsBefore(g, Len(g))

\* the number of cells in the first n rows that carry the tag
RECURSIVE TaggedBefore(_, _, _)
TaggedBefore(g, n, tag) ==
    IF n = 0 THEN 0 ELSE TaggedBefore(g, n - 1, tag) + TagCount(g[n], tag)

PastCount(g) == TaggedBefore(g, Len(g), "past")
FutureCount(g) == TaggedBefore(g, Len(g), "future")

\* clamp(x, lo, hi)
Clamp(x, lo, hi) == IF x < lo THEN lo ELSE IF x > hi THEN hi ELSE x

GridCells == AVERAGE_LIFESPAN_YEARS * WEEKS_PER_YEAR

\* every cell is tagged past exactly when its row-major index is below limit
TaggedUpTo(g, limit) ==
    \A y \in 1 .. Len(g) :
        LET start == CellsBefore(g, y - 1)
        IN  \A w \in 1 .. Len(g[y].cells) :
                /\ g[y].cells[w] \in {"past", "future"}
                /\ g[y].cells[w] = "past" <=> start + (w - 1) < limit

-----------------------------------------------------------------------------
(* C3 *)

\* C3 as stated: for every pair (totalWeeks, weeksLived) the layout emits
\* max(0, totalWeeks) cells in all, and never more than totalWeeks.
C3_AsStated ==
    renderArgs.called =>
        /\ CellCount(grid) = Max(0, renderArgs.totalWeeks)
        /\ CellCount(grid) <= renderArgs.totalWeeks

\* C3 amended: the layout emits min(max(0, totalWeeks), 90 * 52) cells in all,
\* never more than max(0, totalWeeks): none for a negative totalWeeks, and at
\* most the 90 rows of 52 for a totalWeeks above 90 * 52.
C3_CellCount ==
    renderArgs.called =>
        /\ CellCount(grid) = Min(Max(0, renderArgs.totalWeeks), GridCells)
        /\ CellCount(grid) <= Max(0, renderArgs.totalWeeks)

\* a call with totalWeeks above 90 * 52 has emitted the 90 * 52 cells
C3_Witness ==
    /\ renderArgs.called
    /\ renderArgs.totalWeeks > GridCells
    /\ CellCount(grid) = GridCells

-----------------------------------------------------------------------------
(* C4 *)

\* C4 as stated: each emitted cell is past exactly when its row-major index is
\* below clamp(weeksLived, 0, max(0, totalWeeks)), future otherwise, and the
\* number of past cells lies between 0 and totalWeeks.
C4_AsStated ==
    renderArgs.called =>
        /\ TaggedUpTo(grid, Clamp(renderArgs.weeksLived, 0, Max(0, renderArgs.totalWeeks)))
        /\ 0 <= PastCount(grid)
        /\ PastCount(grid) <= renderArgs.totalWeeks

\* C4 amended: the same tagging, and the number of past cells lies between 0
\* and max(0, totalWeeks).
C4_ClampedTags ==
    renderArgs.called =>
        /\ TaggedUpTo(grid, Clamp(renderArgs.weeksLived, 0, Max(0, renderArgs.totalWeeks)))
        /\ 0 <= PastCount(grid)
        /\ PastCount(grid) <= Max(0, renderArgs.totalWeeks)

\* a call with weeksLived above totalWeeks has tagged every cell past
C4_Witness ==
    /\ renderArgs.called
    /\ renderArgs.totalWeeks = WEEKS_PER_YEAR + 1
    /\ renderArgs.weeksLived > renderArgs.totalWeeks
    /\ PastCount(grid) = WEEKS_PER_YEAR + 1
    /\ FutureCount(grid) = 0

-----------------------------------------------------------------------------
(* C9 *)

\* every row but the last holds 52 cells, the last holds 1 to 52, and fewer than
\* 52 only when total is no multiple of 52
RowsPartition(g, total) ==
    /\ CellCount(g) = total
    /\ \A y \in 1 .. Len(g) :
        /\ Len(g[y].cells) >= 1
        /\ Len(g[y].cells) <= WEEKS_PER_YEAR
        /\ y < Len(g) => Len(g[y].cells) = WEEKS_PER_YEAR
        /\ Len(g[y].cells) < WEEKS_PER_YEAR => total % WEEKS_PER_YEAR # 0

\* C9 as stated: for every totalWeeks the rows partition the max(0, totalWeeks)
\* cells into rows of 52 with at most a shorter final row, and no row is empty,
\* also when max(0, totalWeeks) is 0.
C9_AsStated ==
    renderArgs.called => RowsPartition(grid, Max(0, renderArgs.totalWeeks))

\* C9 amended: that holds when 1 <= max(0, totalWeeks) <= 90 * 52.  When
\* max(0, totalWeeks) is 0 the layout emits one row, and it is empty; when it is
\* above 90 * 52 the layout emits 90 rows of 52 cells and stops.
C9_Rows ==
    renderArgs.called =>
        LET total == Max(0, renderArgs.totalWeeks)
        IN  /\ (1 <= total /\ total <= GridCells) => RowsPartition(grid, total)
            /\ total = 0 => (Len(grid) = 1 /\ grid[1].cells = <<>>)
            /\ total > GridCells =>
                    (Len(grid) = AVERAGE_LIFESPAN_YEARS /\ RowsPartition(grid, GridCells))

\* a call with totalWeeks = 53 has emitted a full row and a final row of one cell
C9_Witness ==
    /\ renderArgs.called
    /\ renderArgs.totalWeeks = WEEKS_PER_YEAR + 1
    /\ Len(grid) = 2
    /\ Len(grid[1].cells) = WEEKS_PER_YEAR
    /\ Len(grid[2].cells) = 1

-----------------------------------------------------------------------------
(* Submissions.  A step from Validating to another position is one run of   *)
(* the handler body on rawValue with the clock as it reads; the unprimed    *)
(* state is what the submission before it left.                             *)

HandlerRuns == pc = "Validating" /\ pc' # "Validating"
HandlerReturns == pc \in {"Error", "Computed"} /\ pc' = "Idle"

\* the submitted value, judged on its own
SubmittedDate == rawValue.kind = "date"
Elapsed == clock - rawValue.time
SubmittedFuture == SubmittedDate /\ rawValue.time > clock
SubmittedImplausible ==
    SubmittedDate /\ ~SubmittedFuture /\ Elapsed > MAX_REASONABLE_AGE_YEARS * YearTicks
SubmittedRenderable == SubmittedDate /\ ~SubmittedFuture /\ ~SubmittedImplausible

\* the feedback element, where the page has one, shows message as an error
FeedbackIs(message) ==
    els.dobErrorEl => (dobErrorText' = message /\ dobErrorClass')

\* g is the full grid of 90 rows of 52 cells with the first lived cells past
FullGridFor(g, lived) ==
    /\ Len(g) = AVERAGE_LIFESPAN_YEARS
    /\ RowsPartition(g, GridCells)
    /\ TaggedUpTo(g, Clamp(lived, 0, GridCells))

\* the tenths an age text shows
ShownTenths(text) == 10 * text.groups[1] + text.groups[2]

-----------------------------------------------------------------------------
(* C1 *)

\* C1: a submission that ends in a blocking validation error (empty input,
\* unparseable date, yearsLived > 110) sets the feedback message to that error's
\* message and leaves the grid and the three summary values as they were, and
\* the handler's return changes nothing of them; for empty input calculateWeeks
\* is not called.
C1_BlockingErrors ==
    [][ /\ (HandlerRuns /\ rawValue.kind = "empty") =>
              /\ pc' = "Error" /\ outcome' = "EmptyInput"
              /\ FeedbackIs(MsgEmpty)
              /\ display' = display
              /\ ~calc'.called
        /\ (HandlerRuns /\ rawValue.kind = "garbage") =>
              /\ pc' = "Error" /\ outcome' = "InvalidDate"
              /\ FeedbackIs(MsgInvalid)
              /\ display' = display
        /\ (HandlerRuns /\ SubmittedImplausible) =>
              /\ pc' = "Error" /\ outcome' = "ImplausibleAge"
              /\ FeedbackIs(MsgImplausible)
              /\ display' = display
        /\ (HandlerReturns /\ outcome \in {"EmptyInput", "InvalidDate", "ImplausibleAge"}) =>
              /\ display' = display
              /\ feedback' = feedback
      ]_vars

\* an implausible date has been rejected after an earlier render: the message is
\* shown and the earlier grid and summary are on the page
C1_Witness ==
    /\ pc = "Error"
    /\ outcome = "ImplausibleAge"
    /\ dobErrorText = MsgImplausible
    /\ Len(grid) = AVERAGE_LIFESPAN_YEARS
    /\ remainingText # Placeholder

-----------------------------------------------------------------------------
(* C2 *)

\* C2: for a submission whose date of birth is later than the clock,
\* calculateWeeks fails with the future-date error, the handler catches it, and
\* the grid, the summary values and the feedback message stay as the previous
\* submission left them.
C2_FutureDate ==
    [][ /\ (HandlerRuns /\ SubmittedFuture) =>
              /\ calc'.called
              /\ calc'.result.error = MsgFuture
              /\ pc' = "Error" /\ outcome' = "FutureDateOfBirth"
              /\ console' = MsgFuture
              /\ display' = display
              /\ feedback' = feedback
        /\ (HandlerReturns /\ outcome = "FutureDateOfBirth") =>
              /\ display' = display
              /\ feedback' = feedback
      ]_vars

\* a future date has been submitted after a render that left a notice: the
\* notice and the grid are still there
C2_Witness ==
    /\ pc = "Error"
    /\ outcome = "FutureDateOfBirth"
    /\ console = MsgFuture
    /\ dobErrorText = MsgExceeded
    /\ Len(grid) = AVERAGE_LIFESPAN_YEARS

-----------------------------------------------------------------------------
(* C5 *)

\* C5: for a submission with a parseable date of birth not later than the clock
\* and yearsLived <= 110, the grid and the summary are rendered from that
\* submission's result, and the feedback message is the newborn notice when
\* yearsLived < 0.1, the exceeded-lifespan notice when 90 < yearsLived <= 110,
\* and empty otherwise, whatever message was there before.
C5_RenderPath ==
    [][ (HandlerRuns /\ SubmittedRenderable) =>
            /\ pc' = "Computed"
            /\ FullGridFor(grid', Elapsed \div WeekTicks)
            /\ els.livedEl => ShownNumber(livedText') = Elapsed \div WeekTicks
            /\ els.remainingEl =>
                   ShownNumber(remainingText') = Max(0, GridCells - Elapsed \div WeekTicks)
            /\ els.ageEl =>
                   LET off == 10 * Elapsed - ShownTenths(ageText') * YearTicks
                   IN  -YearTicks <= 2 * off /\ 2 * off <= YearTicks
            /\ IF 10 * Elapsed < YearTicks THEN FeedbackIs(MsgNewborn)
               ELSE IF Elapsed > AVERAGE_LIFESPAN_YEARS * YearTicks
                    THEN FeedbackIs(MsgExceeded)
                    ELSE els.dobErrorEl => (dobErrorText' = "" /\ ~dobErrorClass')
      ]_vars

\* a date has been rendered without a notice, and the feedback element is empty
C5_Witness ==
    /\ pc = "Computed"
    /\ outcome = "Clear"
    /\ els.dobErrorEl
    /\ dobErrorText = ""
    /\ Len(grid) = AVERAGE_LIFESPAN_YEARS
    /\ console = MsgFuture

-----------------------------------------------------------------------------
(* C6 *)

\* C6: the remaining count shown is max(0, totalWeeks - weeksLived) with the
\* unclamped weeksLived = floor(elapsed / week) and totalWeeks = 4680; on the
\* exceeded-lifespan branch it is 0.
C6_Remaining ==
    (pc = "Computed" /\ els.remainingEl) =>
        /\ calc.called
        /\ calc.dob = rawValue.time
        /\ remainingText.sign = ""
        /\ ShownNumber(remainingText) =
               Max(0, 4680 - ((calc.now - calc.dob) \div WeekTicks))
        /\ outcome = "Exceeded" => remainingText = [sign |-> "", groups |-> <<0>>]

\* a render on the exceeded-lifespan branch shows more than 4680 weeks lived
\* and 0 remaining
C6_Witness ==
    /\ pc = "Computed"
    /\ outcome = "Exceeded"
    /\ els.remainingEl
    /\ remainingText.groups = <<0>>
    /\ ShownNumber(livedText) > GridCells

-----------------------------------------------------------------------------
(* C7 *)

SubmitAny == \E raw \in RawChoices : Submit(raw)

\* C7: every submission, whatever its outcome, returns the controller to Idle,
\* where the next submission is accepted; the controller is never anywhere but
\* Idle, Validating, Error or Computed, and a submission starts only from Idle.
C7_ReturnsToIdle ==
    /\ [](pc \in {"Idle", "Validating", "Error", "Computed"})
    /\ [](pc = "Idle" => ENABLED SubmitAny)
    /\ [][pc' = "Validating" => pc \in {"Idle", "Validating"}]_vars
    /\ (pc # "Idle") ~> (pc = "Idle")

\* the controller is idle again after a future date was caught and an
\* implausible one rejected
C7_Witness ==
    /\ pc = "Idle"
    /\ console = MsgFuture
    /\ dobErrorText = MsgImplausible

-----------------------------------------------------------------------------
(* C8 *)

\* C8 as stated: every submission computes a fresh week result and replaces the
\* grid by the grid of that result.
C8_AsStated ==
    [][ HandlerRuns =>
            /\ calc'.called
            /\ SubmittedDate
            /\ FullGridFor(grid', Elapsed \div WeekTicks)
      ]_vars

\* C8 amended: every submission that reaches the render calls (a parseable date
\* of birth, not later than the clock, yearsLived <= 110) computes a fresh week
\* result, discards the rows of the grid and builds the 90 rows anew from that
\* result; every other submission (empty, unparseable, future, yearsLived > 110)
\* leaves the grid of the earlier submission in place.
C8_GridReplaced ==
    [][ HandlerRuns =>
            IF SubmittedRenderable
            THEN /\ calc'.called
                 /\ calc'.dob = rawValue.time /\ calc'.now = clock
                 /\ FullGridFor(grid', Elapsed \div WeekTicks)
            ELSE grid' = grid
      ]_vars

\* an empty submission has ended and the grid of an earlier render is in place
C8_Witness ==
    /\ pc = "Error"
    /\ outcome = "EmptyInput"
    /\ Len(grid) = AVERAGE_LIFESPAN_YEARS
    /\ gridFresh

-----------------------------------------------------------------------------
(* C10 *)

\* C10: once a render has happened, the grid and the summary shown come from
\* the same submission: the future cells number the remaining count shown, the
\* past cells number min(lived count shown, 4680), and past plus future is
\* 4680; a step that changes one of grid and summary is a render.
C10_GridMatchesSummary ==
    /\ [](renderArgs.called =>
            /\ PastCount(grid) + FutureCount(grid) = 4680
            /\ els.remainingEl => FutureCount(grid) = ShownNumber(remainingText)
            /\ els.livedEl => PastCount(grid) = Min(ShownNumber(livedText), 4680))
    /\ [][display' # display => (HandlerRuns /\ pc' = "Computed")]_vars

\* an implausible date has been rejected after a render of a partly lived grid,
\* and the counts shown still match the cells
C10_Witness ==
    /\ renderArgs.called
    /\ pc = "Error"
    /\ outcome = "ImplausibleAge"
    /\ els.remainingEl
    /\ PastCount(grid) > 0
    /\ FutureCount(grid) > 0
    /\ ShownNumber(remainingText) = FutureCount(grid)

=============================================================================
